---- MODULE Spec2Model ----
(***************************************************************************)
(* The editable data-grid cell controller (useDataGridCell) of             *)
(* packages/admin-next/dashboard/src/components/data-grid/hooks.tsx,       *)
(* several cells sharing one grid coordinator.                             *)
(*                                                                         *)
(* Every action is one host event (or one coordinator operation) run to    *)
(* completion: the handler, the focus/blur handlers the DOM runs           *)
(* synchronously inside it, the re-render that follows and the             *)
(* anchor-focus effect of that render.  The closures of the handlers are   *)
(* those of the latest render, so the values they read (anchor,            *)
(* showOverlay) are the values of the state the event arrives in, and      *)
(* stay so until the event is over, whatever the handlers set meanwhile.   *)
(*                                                                         *)
(* Three smaller machines stand beside the grid, each with a specification *)
(* of its own: the renders of one useDataGridCell instance (context lookup *)
(* and registration effect), the renders of useGridQueryTool, and the      *)
(* calls of the fixture helper createAuthIdentities (src/unnamed/part_000).*)
(***************************************************************************)
EXTENDS Integers, Sequences, FiniteSets, TLC

\* ------------------------------------------------------------- the grid

\* the cells mounted in the grid are those with index 0..MaxCell, row by row
MaxCell == 7

\* the nested dispatches of one key event the host's call stack has room for
MaxDispatchDepth == 2

CellTypes == <<"text", "number", "boolean", "select">>

\* one column per cell type
NumCols == Len(CellTypes)

\* CellCoords
Cells == {[row |-> i \div NumCols, col |-> i % NumCols] : i \in 0..MaxCell}

\* anchor = none (anchor?.col is then no column of the grid)
None == [row |-> -1, col |-> -1]

InputKinds == <<"HTMLInputElement", "HTMLElement", "null">>

\* the type prop of the cell at coords: one type per column
type(coords) == CellTypes[coords.col + 1]

\* inputRef.current of the cell at coords: an <input>, another element, or
\* null when the cell attaches the input props to nothing
inputRef(coords) ==
  InputKinds[((2 * coords.row + coords.col) % Len(InputKinds)) + 1]

\* containerRef.current is set for every mounted cell: the handlers are
\* attached to the container (innerProps) or to the overlay inside it
containerRef(coords) == coords \in Cells

\* ------------------------------------------------------------- the DOM

Body == [kind |-> "body", cell |-> None]

Container(coords) == [kind |-> "container", cell |-> coords]

Input(coords) == [kind |-> "input", cell |-> coords]

Elements ==
  {Body} \cup {Container(c) : c \in Cells}
         \cup {Input(c) : c \in {d \in Cells : inputRef(d) # "null"}}

\* containerRef.current.contains(el)
contains(coords, el) == el.kind # "body" /\ el.cell = coords

\* ------------------------------------------------------------- events

Details == {1, 2, 3}

MouseEvents == [detail : Details, shiftKey : BOOLEAN]

Keys == {"5", "a", "z", "Z", "c", "C", "v", "V", "Enter"}

\* a key with no modifier, with ctrl, or with meta
KeyEvents ==
  {e \in [key : Keys, ctrlKey : BOOLEAN, metaKey : BOOLEAN] :
     ~(e.ctrlKey /\ e.metaKey)}

Digits == {"0", "1", "2", "3", "4", "5", "6", "7", "8", "9"}

LineTerminators == {"\n", "\r"}

\* /^.$/u : exactly one character that is no line terminator
textCharacterRegex(key) == Len(key) = 1 /\ key \notin LineTerminators

\* numberCharacterRegex written as the text pattern: any single character
numberCharacterRegex_AnyChar(key) == Len(key) = 1 /\ key \notin LineTerminators

\* /^[0-9]$/u
numberCharacterRegex(key) == key \in Digits

\* String.prototype.toLowerCase on the keys in use
toLowerCase(key) ==
  CASE key = "Z" -> "z"
    [] key = "C" -> "c"
    [] key = "V" -> "v"
    [] key = "Enter" -> "enter"
    [] OTHER -> key

\* ------------------------------------------------------------- state

VARIABLES
  anchor,         \* coordinator: the anchor cell, or None
  rangeEnd,       \* coordinator: the end of the active range, or None
  isSelecting,    \* coordinator flag
  isEditing,      \* coordinator flag
  showOverlay,    \* per cell: the local display-mode state (useState)
  activeElement,  \* document.activeElement
  renderProps,    \* per cell: what the latest render exposed
  log,            \* the calls the latest event made, in order
  last,           \* the latest event
  hook,           \* one useDataGridCell instance, render by render
  tool,           \* one useGridQueryTool instance, render by render
  fixture         \* the fixture helper, call by call

gridVars ==
  <<anchor, rangeEnd, isSelecting, isEditing, showOverlay, activeElement,
    renderProps, log, last>>

vars == <<gridVars, hook, tool, fixture>>

\* The mutable state a handler works on, with the log of the running event;
\* rendered is the showOverlay of the latest render, the value the
\* handleContainerKeyDown of that render has closed over.
World ==
  [anchor |-> anchor, rangeEnd |-> rangeEnd, isSelecting |-> isSelecting,
   isEditing |-> isEditing, showOverlay |-> showOverlay,
   rendered |-> showOverlay,
   activeElement |-> activeElement, log |-> <<>>]

Call(w, f, coords, arg) ==
  [w EXCEPT !.log = Append(@, [f |-> f, cell |-> coords, arg |-> arg])]

BoolArg(v) == IF v THEN "true" ELSE "false"

\* ------------------------------------------------------------- coordinator

\* anchor = end = coords
setSingleRange(w, coords) ==
  [Call(w, "setSingleRange", coords, "")
     EXCEPT !.anchor = coords, !.rangeEnd = coords]

\* the end of the active range moves, the anchor stays
setRangeEnd(w, coords) ==
  [Call(w, "setRangeEnd", coords, "") EXCEPT !.rangeEnd = coords]

setIsSelecting(w, coords, v) ==
  [Call(w, "setIsSelecting", coords, BoolArg(v)) EXCEPT !.isSelecting = v]

setIsEditing(w, coords, v) ==
  [Call(w, "setIsEditing", coords, BoolArg(v)) EXCEPT !.isEditing = v]

\* two coordinate pairs are equal iff both components match
isCellMatch(coords, other) ==
  coords.row = other.row /\ coords.col = other.col

\* ------------------------------------------------------------- the cell

setShowOverlay(w, coords, v) ==
  [Call(w, "setShowOverlay", coords, BoolArg(v))
     EXCEPT !.showOverlay[coords] = v]

preventDefault(w, coords) == Call(w, "preventDefault", coords, "")

stopPropagation(w, coords) == Call(w, "stopPropagation", coords, "")

\* handleInputBlur without setIsEditing(false)
handleInputBlur_KeepsEditing(w, coords) ==
  setShowOverlay(Call(w, "handleInputBlur", coords, ""), coords, TRUE)

\* handleInputBlur without setShowOverlay(true)
handleInputBlur_KeepsOverlayHidden(w, coords) ==
  setIsEditing(Call(w, "handleInputBlur", coords, ""), coords, FALSE)

handleInputBlur(w, coords) ==
  setIsEditing(
    setShowOverlay(Call(w, "handleInputBlur", coords, ""), coords, TRUE),
    coords, FALSE)

handleInputFocus(w, coords) ==
  setIsEditing(
    setShowOverlay(Call(w, "handleInputFocus", coords, ""), coords, FALSE),
    coords, TRUE)

\* HTMLElement.focus(): nothing when el has the focus already; otherwise the
\* input losing the focus gets its blur event (input.onBlur), the focus
\* moves, and an input gaining it gets its focus event (input.onFocus).
focus(w, el) ==
  IF w.activeElement = el THEN w
  ELSE
    LET w1 == IF w.activeElement.kind = "input"
              THEN handleInputBlur(w, w.activeElement.cell)
              ELSE w
        w2 == [w1 EXCEPT !.activeElement = el]
    IN IF el.kind = "input" THEN handleInputFocus(w2, el.cell) ELSE w2

\* inputRef.current.focus()
focusInput(w, coords) ==
  focus(Call(w, "inputRef.focus", coords, ""), Input(coords))

\* containerRef.current.focus()
focusContainer(w, coords) ==
  focus(Call(w, "containerRef.focus", coords, ""), Container(coords))

\* ------------------------------------------- faulty variants of the handler

\* handleOverlayMouseDown taking every repeated click (detail >= 2) for a
\* double-click
handleOverlayMouseDown_RepeatIsDouble(w, coords, e) ==
  LET w0 == stopPropagation(preventDefault(w, coords), coords) IN
  IF e.detail >= 2 /\ inputRef(coords) # "null"
  THEN focusInput(setShowOverlay(w0, coords, FALSE), coords)
  ELSE IF e.shiftKey /\ coords.col = w0.anchor.col
  THEN setRangeEnd(w0, coords)
  ELSE IF containerRef(coords)
  THEN focusContainer(
         setIsSelecting(setSingleRange(w0, coords), coords, TRUE), coords)
  ELSE w0

\* handleOverlayMouseDown without the return after setRangeEnd
handleOverlayMouseDown_NoReturn(w, coords, e) ==
  LET w0 == stopPropagation(preventDefault(w, coords), coords) IN
  IF e.detail = 2 /\ inputRef(coords) # "null"
  THEN focusInput(setShowOverlay(w0, coords, FALSE), coords)
  ELSE
    LET w1 == IF e.shiftKey /\ coords.col = w0.anchor.col
              THEN setRangeEnd(w0, coords)
              ELSE w0
    IN IF containerRef(coords)
       THEN focusContainer(
              setIsSelecting(setSingleRange(w1, coords), coords, TRUE),
              coords)
       ELSE w1

\* handleOverlayMouseDown testing the shift key before the repeat count
handleOverlayMouseDown_ShiftFirst(w, coords, e) ==
  LET w0 == stopPropagation(preventDefault(w, coords), coords) IN
  IF e.shiftKey /\ coords.col = w0.anchor.col
  THEN setRangeEnd(w0, coords)
  ELSE IF e.detail = 2 /\ inputRef(coords) # "null"
  THEN focusInput(setShowOverlay(w0, coords, FALSE), coords)
  ELSE IF containerRef(coords)
  THEN focusContainer(
         setIsSelecting(setSingleRange(w0, coords), coords, TRUE), coords)
  ELSE w0

\* handleBooleanInnerMouseDown without the return after the double-click
handleBooleanInnerMouseDown_NoReturn(w, coords, e) ==
  LET w0 == stopPropagation(preventDefault(w, coords), coords)
      w1 == IF e.detail = 2 /\ inputRef(coords) # "null"
            THEN focusInput(w0, coords)
            ELSE w0
  IN IF e.shiftKey
     THEN setRangeEnd(w1, coords)
     ELSE IF containerRef(coords)
     THEN focusContainer(
            setIsSelecting(setSingleRange(w1, coords), coords, TRUE), coords)
     ELSE w1

\* ------------------------------------------------------------- handlers

handleOverlayMouseDown(w, coords, e) ==
  LET w0 == stopPropagation(preventDefault(w, coords), coords) IN
  IF e.detail = 2 /\ inputRef(coords) # "null"
  THEN focusInput(setShowOverlay(w0, coords, FALSE), coords)
  ELSE IF e.shiftKey /\ coords.col = w0.anchor.col
  THEN setRangeEnd(w0, coords)
  ELSE IF containerRef(coords)
  THEN focusContainer(
         setIsSelecting(setSingleRange(w0, coords), coords, TRUE), coords)
  ELSE w0

handleBooleanInnerMouseDown(w, coords, e) ==
  LET w0 == stopPropagation(preventDefault(w, coords), coords) IN
  IF e.detail = 2
  THEN IF inputRef(coords) # "null" THEN focusInput(w0, coords) ELSE w0
  ELSE IF e.shiftKey
  THEN setRangeEnd(w0, coords)
  ELSE IF containerRef(coords)
  THEN focusContainer(
         setIsSelecting(setSingleRange(w0, coords), coords, TRUE), coords)
  ELSE w0

validateKeyStroke(t, key) ==
  IF t = "number" THEN numberCharacterRegex(key)
  ELSE IF t = "text" THEN textCharacterRegex(key)
  ELSE FALSE

RECURSIVE handleContainerKeyDown(_, _, _)

\* the dispatchEvent calls of the running event
Dispatches(l) == Cardinality({i \in 1..Len(l) : l[i].f = "dispatchEvent"})

\* inputRef.current.dispatchEvent(event): the event is handed to the input
\* synchronously.  It is a copy of the native keydown (bubbles included), so
\* from the input it bubbles to the container, whose onKeyDown is the
\* handleContainerKeyDown of the same render; the nesting ends where the
\* host's call stack does.
dispatchEvent(w, coords, e) ==
  LET w1 == Call(w, "dispatchEvent", coords, e.key)
  IN IF Dispatches(w1.log) < MaxDispatchDepth
     THEN handleContainerKeyDown(w1, coords, e)
     ELSE w1

\* handleContainerKeyDown comparing e.key itself, not e.key.toLowerCase()
handleContainerKeyDown_CaseSensitive(w, coords, e) ==
  IF \/ inputRef(coords) = "null"
     \/ ~validateKeyStroke(type(coords), e.key)
     \/ ~w.rendered[coords]
  THEN w
  ELSE IF e.key = "z" /\ (e.ctrlKey \/ e.metaKey) THEN w
  ELSE IF e.key = "c" /\ (e.ctrlKey \/ e.metaKey) THEN w
  ELSE IF e.key = "v" /\ (e.ctrlKey \/ e.metaKey) THEN w
  ELSE
    LET w1 == focusInput(w, coords)
        w2 == setShowOverlay(w1, coords, FALSE)
        w3 == IF inputRef(coords) = "HTMLInputElement"
              THEN Call(w2, "select", coords, "")
              ELSE w2
    IN dispatchEvent(w3, coords, e)

\* handleContainerKeyDown without the !showOverlay test
handleContainerKeyDown_IgnoresOverlay(w, coords, e) ==
  IF \/ inputRef(coords) = "null"
     \/ ~validateKeyStroke(type(coords), e.key)
  THEN w
  ELSE IF toLowerCase(e.key) = "z" /\ (e.ctrlKey \/ e.metaKey) THEN w
  ELSE IF toLowerCase(e.key) = "c" /\ (e.ctrlKey \/ e.metaKey) THEN w
  ELSE IF toLowerCase(e.key) = "v" /\ (e.ctrlKey \/ e.metaKey) THEN w
  ELSE
    LET w1 == focusInput(w, coords)
        w2 == setShowOverlay(w1, coords, FALSE)
        w3 == IF inputRef(coords) = "HTMLInputElement"
              THEN Call(w2, "select", coords, "")
              ELSE w2
    IN dispatchEvent(w3, coords, e)

handleContainerKeyDown(w, coords, e) ==
  IF \/ inputRef(coords) = "null"
     \/ ~validateKeyStroke(type(coords), e.key)
     \/ ~w.rendered[coords]
  THEN w
  ELSE IF toLowerCase(e.key) = "z" /\ (e.ctrlKey \/ e.metaKey) THEN w
  ELSE IF toLowerCase(e.key) = "c" /\ (e.ctrlKey \/ e.metaKey) THEN w
  ELSE IF toLowerCase(e.key) = "v" /\ (e.ctrlKey \/ e.metaKey) THEN w
  ELSE
    LET w1 == focusInput(w, coords)
        w2 == setShowOverlay(w1, coords, FALSE)
        w3 == IF inputRef(coords) = "HTMLInputElement"
              THEN Call(w2, "select", coords, "")
              ELSE w2
    IN dispatchEvent(w3, coords, e)

isAnchor(a, coords) == IF a # None THEN isCellMatch(coords, a) ELSE FALSE

\* fieldWithoutOverlay forgetting the select type
fieldWithoutOverlay_BooleanOnly(coords) == type(coords) = "boolean"

fieldWithoutOverlay(coords) ==
  type(coords) = "boolean" \/ type(coords) = "select"

\* the part of renderProps.container the view reads
Render(w) ==
  [c \in Cells |->
     [isAnchor |-> isAnchor(w.anchor, c),
      showOverlay |-> IF fieldWithoutOverlay(c) THEN FALSE
                      ELSE w.showOverlay[c]]]

\* the anchor-focus effect without the contains(document.activeElement) test
anchorFocusEffect_AlwaysFocus(w) ==
  LET became == {c \in Cells :
                   isAnchor(w.anchor, c) /\ ~renderProps[c].isAnchor}
  IN IF became = {} THEN w
     ELSE focusContainer(w, CHOOSE x \in became : TRUE)

\* the anchor-focus effect never focusing the container
anchorFocusEffect_NoFocus(w) == w

\* useEffect(..., [isAnchor]): runs for the cells whose isAnchor changed in
\* this render; only a cell that became the anchor can act.
anchorFocusEffect(w) ==
  LET became == {c \in Cells :
                   isAnchor(w.anchor, c) /\ ~renderProps[c].isAnchor}
  IN IF became = {} THEN w
     ELSE LET c == CHOOSE x \in became : TRUE
          IN IF ~contains(c, w.activeElement) /\ containerRef(c)
             THEN focusContainer(w, c)
             ELSE w

NoEvent ==
  [op |-> "none", cell |-> None, detail |-> 0, shiftKey |-> FALSE,
   key |-> "", ctrlKey |-> FALSE, metaKey |-> FALSE]

MouseDown(op, coords, e) ==
  [NoEvent EXCEPT !.op = op, !.cell = coords, !.detail = e.detail,
                  !.shiftKey = e.shiftKey]

KeyDown(coords, e) ==
  [NoEvent EXCEPT !.op = "keydown", !.cell = coords, !.key = e.key,
                  !.ctrlKey = e.ctrlKey, !.metaKey = e.metaKey]

\* The event is over: the effects of the render run, and the state is
\* rendered again.
Commit(w, ev) ==
  \E w1 \in {anchorFocusEffect(w)} :
  /\ anchor' = w1.anchor
  /\ rangeEnd' = w1.rangeEnd
  /\ isSelecting' = w1.isSelecting
  /\ isEditing' = w1.isEditing
  /\ showOverlay' = w1.showOverlay
  /\ activeElement' = w1.activeElement
  /\ renderProps' = Render(w1)
  /\ log' = w1.log
  /\ last' = ev
  /\ UNCHANGED <<hook, tool, fixture>>

\* ------------------------------------- one useDataGridCell instance

\* the renders of one instance that are followed
MaxRenders == 3

RowIndexes == {0, 1}

ColumnIndexes == {0, 1}

Fields == {"title", "price"}

\* the props of one render: context.rowIndex, context.columnIndex, field, type
Props ==
  [rowIndex : RowIndexes, columnIndex : ColumnIndexes, field : Fields,
   type : {CellTypes[i] : i \in 1..Len(CellTypes)}]

NoProps == [rowIndex |-> -1, columnIndex |-> -1, field |-> "", type |-> ""]

\* the registerCell functions a coordinator may hand out, by identity
RegisterCellFns == {1, 2}

\* what useContext(DataGridContext) gives: nothing outside a provider, else
\* the coordinator's context, of which the registerCell function is kept
NoContext == [provided |-> FALSE, registerCell |-> 0]

Contexts ==
  {NoContext} \cup
  {[provided |-> TRUE, registerCell |-> f] : f \in RegisterCellFns}

ContextError ==
  "useDataGridContext must be used within a DataGridContextProvider"

\* useDataGridContext returning whatever useContext gives
useDataGridContext_NoThrow(context) ==
  [threw |-> FALSE, error |-> "", context |-> context]

useDataGridContext(context) ==
  IF ~context.provided
  THEN [threw |-> TRUE, error |-> ContextError, context |-> context]
  ELSE [threw |-> FALSE, error |-> "", context |-> context]

\* a memo cell before its first use
NoMemo == [deps |-> <<>>, value |-> [row |-> -1, col |-> -1, ref |-> 0]]

\* useMemo building a new coords object at every render
useMemo_Fresh(memo, deps, n) ==
  [deps |-> deps, value |-> [row |-> deps[1], col |-> deps[2], ref |-> n]]

\* useMemo(() => ({row: rowIndex, col: columnIndex}), [rowIndex,
\* columnIndex]) at render n: the object of the previous render while the
\* dependencies are the same, a new object (ref: the render that made it)
\* otherwise
useMemo(memo, deps, n) ==
  IF memo.deps = deps THEN memo
  ELSE [deps |-> deps, value |-> [row |-> deps[1], col |-> deps[2], ref |-> n]]

\* registerCell(coords, field, type), as the coordinator receives it
registerCell(fn, coords, field, t) ==
  [fn |-> fn, row |-> coords.row, col |-> coords.col, field |-> field,
   type |-> t]

NoRegistration ==
  [fn |-> 0, row |-> -1, col |-> -1, field |-> "", type |-> ""]

\* the hooks a render goes through up to the context lookup, and after it
HooksBeforeContext == <<"useMemo", "generateCellId", "useDataGridContext">>

HooksAfterContext ==
  <<"useEffect", "useState", "useRef", "useRef", "useCallback",
    "useCallback", "useCallback", "useCallback", "useCallback",
    "useCallback", "useMemo", "useMemo", "useEffect">>

\* no instance mounted; registered counts the registerCell calls the
\* coordinator has received, lastRegistered is the latest of them
Unmounted ==
  [status |-> "unmounted", renders |-> 0, props |-> NoProps,
   context |-> NoContext, coords |-> NoMemo, deps |-> <<>>,
   registered |-> 0, lastRegistered |-> NoRegistration,
   log |-> <<>>, error |-> ""]

\* One render of useDataGridCell and, when the render completes, its commit
\* with the registration effect.  A render that throws commits nothing: the
\* instance is gone, the coordinator has received nothing.
useDataGridCell(h, props, context) ==
  LET n == h.renders + 1
      coords == useMemo(h.coords, <<props.rowIndex, props.columnIndex>>, n)
      c == useDataGridContext(context)
  IN IF c.threw
     THEN [Unmounted EXCEPT !.status = "threw", !.renders = n,
                            !.props = props, !.context = context,
                            !.registered = h.registered,
                            !.lastRegistered = h.lastRegistered,
                            !.log = HooksBeforeContext, !.error = c.error]
     ELSE
       LET deps == <<coords.value, props.field, props.type,
                     c.context.registerCell>>
           run == h.status # "mounted" \/ h.deps # deps
           call == registerCell(c.context.registerCell, coords.value,
                                props.field, props.type)
           rendered == HooksBeforeContext \o HooksAfterContext
       IN [status |-> "mounted", renders |-> n, props |-> props,
           context |-> context, coords |-> coords, deps |-> deps,
           registered |-> IF run THEN h.registered + 1 ELSE h.registered,
           lastRegistered |-> IF run THEN call ELSE h.lastRegistered,
           log |-> IF run THEN Append(rendered, "registerCell")
                   ELSE rendered,
           error |-> ""]

\* ------------------------------------- one useGridQueryTool instance

\* the ref objects a caller may pass as containerRef, by identity
ContainerRefs == {1, 2}

Null == "null"

\* the grid-container elements that may be mounted
ContainerElements == {"div1", "div2"}

\* new GridQueryTool(container)
GridQueryTool(container) == [container |-> container]

\* queryToolRef.current before any tool is built
NullTool == [container |-> Null]

\* before the first render: no ref object seen (0), no element in any ref,
\* useRef(null), no effect dependencies yet (0), nothing returned, no tool
\* built
NotRendered ==
  [renders |-> 0, containerRef |-> 0,
   current |-> [r \in ContainerRefs |-> Null],
   queryToolRef |-> NullTool, deps |-> 0, returned |-> NullTool,
   built |-> 0]

\* One render of useGridQueryTool(containerRef) in its owner, and the commit:
\* the hook returns queryToolRef.current as it is during the render; the
\* commit leaves element el (or none) in containerRef.current, detaching a
\* ref object no longer passed; then the effect, whose only dependency is
\* the ref object itself, runs on mount and when that object is another one.
useGridQueryTool(t, ref, el) ==
  LET run == t.renders = 0 \/ t.deps # ref
      build == run /\ el # Null
      current == [r \in ContainerRefs |->
                    IF r = ref THEN el
                    ELSE IF r = t.containerRef THEN Null
                    ELSE t.current[r]]
  IN [renders |-> t.renders + 1, containerRef |-> ref, current |-> current,
      queryToolRef |-> IF build THEN GridQueryTool(el) ELSE t.queryToolRef,
      deps |-> ref, returned |-> t.queryToolRef,
      built |-> IF build THEN t.built + 1 ELSE t.built]

\* ------------------------------------- the fixture helper

\* the longest record list passed or returned
MaxRecords == 2

Undefined == "undefined"

\* an auth-identity record: id, provider_identities[0].entity_id,
\* provider_identities[0].provider, app_metadata.user_id (Undefined: absent)
AuthIdentity(id, entity_id, provider, user_id) ==
  [id |-> id, entity_id |-> entity_id, provider |-> provider,
   user_id |-> user_id]

\* the default value of the userData parameter
DefaultUserData ==
  <<AuthIdentity("test-id", "test-id", "manual", "user-1"),
    AuthIdentity("test-id-1", "test-id-1", "manual", Undefined),
    AuthIdentity(Undefined, "test-id-2", "store", Undefined)>>

\* the records callers pass and services return
Records ==
  {AuthIdentity("a", "a", "manual", Undefined),
   AuthIdentity(Undefined, "b", "store", Undefined),
   AuthIdentity("c", "c", "manual", "user-1")}

RecordLists ==
  UNION {[1..n -> Records] : n \in 0..MaxRecords} \cup {DefaultUserData}

\* the userData argument of a call: omitted, or a list
UserData ==
  {[given |-> FALSE, list |-> <<>>]} \cup
  {[given |-> TRUE, list |-> l] : l \in RecordLists}

\* the errors the service may reject with
Errors == {"duplicate", "unavailable"}

\* what service.createAuthIdentities settles with
Pending == [settled |-> FALSE, ok |-> FALSE, value |-> <<>>, error |-> ""]

Resolved(l) == [settled |-> TRUE, ok |-> TRUE, value |-> l, error |-> ""]

Rejected(err) == [settled |-> TRUE, ok |-> FALSE, value |-> <<>>, error |-> err]

\* the default parameter taking an empty list for an omitted one
userData_DefaultWhenEmpty(arg) ==
  IF arg.given /\ arg.list # <<>> THEN arg.list ELSE DefaultUserData

\* userData: any[] = [...]: the default applies to an omitted argument only
userData(arg) == IF arg.given THEN arg.list ELSE DefaultUserData

\* no call made yet
Idle ==
  [phase |-> "idle", arg |-> [given |-> FALSE, list |-> <<>>],
   calls |-> <<>>, service |-> Pending, value |-> <<>>, error |-> ""]

\* createAuthIdentities(service, userData) up to its await: one call of
\* service.createAuthIdentities with the list
createAuthIdentities(arg) ==
  [Idle EXCEPT !.phase = "awaiting", !.arg = arg,
               !.calls = <<userData(arg)>>]

\* the await answering a rejection with an empty list
returnAwait_Swallow(f, outcome) ==
  IF outcome.ok
  THEN [f EXCEPT !.phase = "resolved", !.service = outcome,
                 !.value = outcome.value]
  ELSE [f EXCEPT !.phase = "resolved", !.service = outcome, !.value = <<>>]

\* return await service.createAuthIdentities(userData): the promise of the
\* helper settles as the service's promise has
returnAwait(f, outcome) ==
  IF outcome.ok
  THEN [f EXCEPT !.phase = "resolved", !.service = outcome,
                 !.value = outcome.value]
  ELSE [f EXCEPT !.phase = "rejected", !.service = outcome,
                 !.error = outcome.error]

\* ------------------------------------------------------------- actions

Init ==
  /\ anchor = None
  /\ rangeEnd = None
  /\ isSelecting = FALSE
  /\ isEditing = FALSE
  /\ showOverlay = [c \in Cells |-> TRUE]
  /\ activeElement = Body
  /\ renderProps = [c \in Cells |->
                      [isAnchor |-> FALSE,
                       showOverlay |-> ~fieldWithoutOverlay(c)]]
  /\ log = <<>>
  /\ last = NoEvent
  /\ hook = Unmounted
  /\ tool = NotRendered
  /\ fixture = Idle

\* mousedown on the overlay of a cell: the overlay is there while the
\* render exposes showOverlay
OverlayMouseDown(coords, e) ==
  /\ renderProps[coords].showOverlay
  /\ Commit(handleOverlayMouseDown(World, coords, e),
            MouseDown("overlayMouseDown", coords, e))

\* mousedown on the inner control of a boolean cell
BooleanInnerMouseDown(coords, e) ==
  /\ type(coords) = "boolean"
  /\ Commit(handleBooleanInnerMouseDown(World, coords, e),
            MouseDown("booleanInnerMouseDown", coords, e))

\* keydown with the focus inside the container of a cell
ContainerKeyDown(coords, e) ==
  /\ contains(coords, activeElement)
  /\ Commit(handleContainerKeyDown(World, coords, e), KeyDown(coords, e))

\* the host moves the focus to the input of a cell (Tab, a click on a
\* control that no overlay covers, ...)
InputFocus(coords) ==
  /\ inputRef(coords) # "null"
  /\ activeElement # Input(coords)
  /\ Commit(focus(World, Input(coords)),
            [NoEvent EXCEPT !.op = "inputFocus", !.cell = coords])

\* the focus leaves the grid
FocusOut ==
  /\ activeElement # Body
  /\ Commit(focus(World, Body),
            [NoEvent EXCEPT !.op = "focusOut", !.cell = activeElement.cell])

\* the coordinator selects a cell itself (keyboard navigation, ...)
ProgrammaticSelection(coords) ==
  /\ anchor # coords
  /\ Commit([World EXCEPT !.anchor = coords, !.rangeEnd = coords],
            [NoEvent EXCEPT !.op = "programmaticSelection", !.cell = coords])

Next ==
  \/ \E c \in Cells, e \in MouseEvents : OverlayMouseDown(c, e)
  \/ \E c \in Cells, e \in MouseEvents : BooleanInnerMouseDown(c, e)
  \/ \E c \in Cells, e \in KeyEvents : ContainerKeyDown(c, e)
  \/ \E c \in Cells : InputFocus(c)
  \/ FocusOut
  \/ \E c \in Cells : ProgrammaticSelection(c)

Spec == Init /\ [][Next]_vars

TypeOK ==
  /\ anchor \in Cells \cup {None}
  /\ rangeEnd \in Cells \cup {None}
  /\ isSelecting \in BOOLEAN
  /\ isEditing \in BOOLEAN
  /\ showOverlay \in [Cells -> BOOLEAN]
  /\ activeElement \in Elements

\* --------------------------------- the renders of one cell's instance

\* the component is mounted: first render of a new instance
Mount(props, context) ==
  /\ hook.status # "mounted"
  /\ hook.renders < MaxRenders
  /\ hook' = useDataGridCell([hook EXCEPT !.coords = NoMemo, !.deps = <<>>],
                             props, context)
  /\ UNCHANGED <<gridVars, tool, fixture>>

\* the mounted component renders again, with the same or other props and
\* with the context of the provider above it at that time
Rerender(props, context) ==
  /\ hook.status = "mounted"
  /\ hook.renders < MaxRenders
  /\ hook' = useDataGridCell(hook, props, context)
  /\ UNCHANGED <<gridVars, tool, fixture>>

\* the component is unmounted: the state of its hooks is dropped (the
\* registration effect has no cleanup)
Unmount ==
  /\ hook.status = "mounted"
  /\ hook' = [hook EXCEPT !.status = "unmounted", !.coords = NoMemo,
                          !.deps = <<>>, !.log = <<>>]
  /\ UNCHANGED <<gridVars, tool, fixture>>

NextCell ==
  \/ \E p \in Props, c \in Contexts : Mount(p, c)
  \/ \E p \in Props, c \in Contexts : Rerender(p, c)
  \/ Unmount

SpecCell == Init /\ [][NextCell]_vars

\* --------------------------------- the renders of useGridQueryTool

\* the owner renders, passing ref object ref, and commits with element el
\* (or none) as the grid container
RenderTool(ref, el) ==
  /\ tool.renders < MaxRenders
  /\ tool' = useGridQueryTool(tool, ref, el)
  /\ UNCHANGED <<gridVars, hook, fixture>>

\* the container element is replaced (or removed) by the component that
\* renders it, without a render of the hook's owner: only
\* containerRef.current changes
ContainerReplaced(el) ==
  /\ tool.renders > 0
  /\ tool.current[tool.containerRef] # el
  /\ tool' = [tool EXCEPT !.current[tool.containerRef] = el]
  /\ UNCHANGED <<gridVars, hook, fixture>>

NextTool ==
  \/ \E r \in ContainerRefs, el \in ContainerElements \cup {Null} :
       RenderTool(r, el)
  \/ \E el \in ContainerElements \cup {Null} : ContainerReplaced(el)

SpecTool == Init /\ [][NextTool]_vars

\* --------------------------------- the calls of the fixture helper

\* a test calls the helper (no call of it is in flight)
CallFixture(arg) ==
  /\ fixture.phase # "awaiting"
  /\ fixture' = createAuthIdentities(arg)
  /\ UNCHANGED <<gridVars, hook, tool>>

\* the service resolves, to whatever list it has created
ServiceResolves(l) ==
  /\ fixture.phase = "awaiting"
  /\ fixture' = returnAwait(fixture, Resolved(l))
  /\ UNCHANGED <<gridVars, hook, tool>>

\* the service rejects
ServiceRejects(err) ==
  /\ fixture.phase = "awaiting"
  /\ fixture' = returnAwait(fixture, Rejected(err))
  /\ UNCHANGED <<gridVars, hook, tool>>

NextFixture ==
  \/ \E arg \in UserData : CallFixture(arg)
  \/ \E l \in RecordLists : ServiceResolves(l)
  \/ \E err \in Errors : ServiceRejects(err)

SpecFixture == Init /\ [][NextFixture]_vars

\* ------------------------------------------------------------- claims

PointerOps == {"overlayMouseDown", "booleanInnerMouseDown"}

NotCalled(l, f) == \A i \in 1..Len(l) : l[i].f # f

WasCalled(l, f, coords, arg) ==
  \E i \in 1..Len(l) : l[i] = [f |-> f, cell |-> coords, arg |-> arg]

\* C1: after a plain click (repeat count not 2, shift not held) on any cell,
\* through either pointer handler, the anchor and the end of the range are
\* the clicked cell and isSelecting is true.
C1_PlainClick ==
  (last.op \in PointerOps /\ last.detail # 2 /\ ~last.shiftKey)
    => /\ anchor = last.cell
       /\ rangeEnd = last.cell
       /\ isSelecting
       /\ WasCalled(log, "setSingleRange", last.cell, "")

C1_Witness ==
  /\ last.op = "overlayMouseDown" /\ last.detail = 3 /\ ~last.shiftKey
  /\ anchor = last.cell /\ rangeEnd = last.cell /\ isSelecting
  /\ activeElement = Container(last.cell)

\* C2: a shift-click (single click) on a cell whose column is not the
\* anchor's column is handled as a plain click by every pointer handler: new
\* single-cell range at the clicked cell, isSelecting true, the container of
\* the cell focused, setRangeEnd never called.
C2_ShiftOtherColumnIsPlain ==
  [][(/\ last'.op \in PointerOps /\ last'.detail = 1 /\ last'.shiftKey
      /\ anchor # None /\ last'.cell.col # anchor.col)
       => /\ anchor' = last'.cell
          /\ rangeEnd' = last'.cell
          /\ isSelecting'
          /\ activeElement' = Container(last'.cell)
          /\ NotCalled(log', "setRangeEnd")]_vars

\* C3: a shift-click (single click) on a cell in the anchor's column moves
\* the end of the range to the clicked cell and stops: the anchor, isSelecting
\* and the focus are as before, setSingleRange and setIsSelecting are not
\* called.
C3_ShiftSameColumnExtends ==
  [][(/\ last'.op \in PointerOps /\ last'.detail = 1 /\ last'.shiftKey
      /\ anchor # None /\ last'.cell.col = anchor.col)
       => /\ rangeEnd' = last'.cell
          /\ WasCalled(log', "setRangeEnd", last'.cell, "")
          /\ anchor' = anchor
          /\ isSelecting' = isSelecting
          /\ activeElement' = activeElement
          /\ showOverlay' = showOverlay
          /\ NotCalled(log', "setSingleRange")
          /\ NotCalled(log', "setIsSelecting")
          /\ NotCalled(log', "containerRef.focus")]_vars

C3_Witness ==
  /\ last.op = "overlayMouseDown" /\ last.detail = 1 /\ last.shiftKey
  /\ anchor # None /\ anchor # last.cell /\ anchor.col = last.cell.col
  /\ rangeEnd = last.cell
  /\ WasCalled(log, "setRangeEnd", last.cell, "")
  /\ activeElement = Container(anchor)

\* C4: a double-click on a cell that has an input, shift held or not, leaves
\* the anchor, the range and isSelecting as they were (no setSingleRange,
\* setRangeEnd or setIsSelecting call) and leaves the cell in Direct-edit:
\* overlay hidden, input focused.
C4_DoubleClickDirectEdit ==
  [][(/\ last'.op \in PointerOps /\ last'.detail = 2
      /\ inputRef(last'.cell) # "null")
       => /\ anchor' = anchor
          /\ rangeEnd' = rangeEnd
          /\ isSelecting' = isSelecting
          /\ NotCalled(log', "setSingleRange")
          /\ NotCalled(log', "setRangeEnd")
          /\ NotCalled(log', "setIsSelecting")
          /\ ~showOverlay'[last'.cell]
          /\ ~renderProps'[last'.cell].showOverlay
          /\ activeElement' = Input(last'.cell)]_vars

C4_Witness ==
  /\ last.op = "overlayMouseDown" /\ last.detail = 2 /\ last.shiftKey
  /\ anchor # None /\ anchor # last.cell /\ anchor.col = last.cell.col
  /\ rangeEnd # last.cell
  /\ ~showOverlay[last.cell]
  /\ activeElement = Input(last.cell)

\* C5 (as claimed): on a number cell with an input, in Overlay mode, a digit
\* keydown hides the overlay, focuses the input, selects the content of the
\* input and re-dispatches the key to the input; any other key changes
\* nothing and re-dispatches nothing.
C5_DigitSelectsAlways ==
  [][(/\ last'.op = "keydown" /\ type(last'.cell) = "number"
      /\ inputRef(last'.cell) # "null" /\ showOverlay[last'.cell])
       => IF last'.key \in Digits
          THEN /\ ~showOverlay'[last'.cell]
               /\ activeElement' = Input(last'.cell)
               /\ WasCalled(log', "select", last'.cell, "")
               /\ WasCalled(log', "dispatchEvent", last'.cell, last'.key)
          ELSE /\ showOverlay' = showOverlay
               /\ activeElement' = activeElement
               /\ log' = <<>>]_vars

\* C5 (amended): as C5, but the content of the input is selected exactly
\* when the input is an HTMLInputElement.
C5_DigitTypeToEdit ==
  [][(/\ last'.op = "keydown" /\ type(last'.cell) = "number"
      /\ inputRef(last'.cell) # "null" /\ showOverlay[last'.cell])
       => IF last'.key \in Digits
          THEN /\ ~showOverlay'[last'.cell]
               /\ activeElement' = Input(last'.cell)
               /\ WasCalled(log', "select", last'.cell, "")
                    <=> inputRef(last'.cell) = "HTMLInputElement"
               /\ WasCalled(log', "dispatchEvent", last'.cell, last'.key)
          ELSE /\ showOverlay' = showOverlay
               /\ activeElement' = activeElement
               /\ log' = <<>>]_vars

C5_Witness ==
  /\ last.op = "keydown" /\ last.key = "5"
  /\ type(last.cell) = "number"
  /\ inputRef(last.cell) = "HTMLInputElement"
  /\ ~showOverlay[last.cell]
  /\ activeElement = Input(last.cell)
  /\ WasCalled(log, "select", last.cell, "")
  /\ WasCalled(log, "dispatchEvent", last.cell, "5")

ExemptKeys == {"z", "c", "v"}

\* C6: in Overlay mode, for every cell type, a keydown of z, c or v (either
\* case) with ctrl or meta held is not forwarded: the overlay stays, the
\* focus stays, nothing is re-dispatched.
C6_UndoCopyPasteNotForwarded ==
  [][(/\ last'.op = "keydown" /\ showOverlay[last'.cell]
      /\ toLowerCase(last'.key) \in ExemptKeys
      /\ (last'.ctrlKey \/ last'.metaKey))
       => /\ showOverlay' = showOverlay
          /\ activeElement' = activeElement
          /\ isEditing' = isEditing
          /\ NotCalled(log', "inputRef.focus")
          /\ NotCalled(log', "dispatchEvent")]_vars

C6_Witness ==
  /\ last.op = "keydown" /\ last.key = "V" /\ last.metaKey
  /\ type(last.cell) = "text" /\ inputRef(last.cell) # "null"
  /\ showOverlay[last.cell]
  /\ activeElement = Container(last.cell)
  /\ log = <<>>

FocusHandlers == {"handleInputBlur", "handleInputFocus"}

FocusEvents(l) == {i \in 1..Len(l) : l[i].f \in FocusHandlers}

LastFocusEvent(l) ==
  l[CHOOSE i \in FocusEvents(l) : \A j \in FocusEvents(l) : j <= i]

\* C7: whatever event ran them, the blur handler of an input leaves its cell
\* in Overlay mode and the focus handler leaves its cell in Direct-edit, and
\* isEditing is what the latest of them set: false after a blur, true after
\* a focus.
C7_BlurAndFocus ==
  /\ \A i \in FocusEvents(log) :
       IF log[i].f = "handleInputBlur"
       THEN /\ showOverlay[log[i].cell]
            /\ activeElement # Input(log[i].cell)
       ELSE /\ ~showOverlay[log[i].cell]
            /\ activeElement = Input(log[i].cell)
  /\ FocusEvents(log) # {}
       => isEditing = (LastFocusEvent(log).f = "handleInputFocus")

C7_Witness ==
  \E i, j \in FocusEvents(log) :
    /\ i < j
    /\ log[i].f = "handleInputBlur" /\ log[j].f = "handleInputFocus"
    /\ showOverlay[log[i].cell] /\ ~showOverlay[log[j].cell]
    /\ isEditing
    /\ last.op = "overlayMouseDown" /\ last.detail = 2

\* C8: in every state the render of a boolean or select cell exposes
\* showOverlay = false whatever its local display-mode state, and the render
\* of a text or number cell exposes the local display-mode state.
C8_RenderedOverlay ==
  \A c \in Cells :
    IF type(c) \in {"boolean", "select"}
    THEN renderProps[c].showOverlay = FALSE
    ELSE renderProps[c].showOverlay = showOverlay[c]

C8_Witness ==
  \E c, d \in Cells :
    /\ type(c) = "select" /\ showOverlay[c] /\ ~renderProps[c].showOverlay
    /\ anchor = c /\ renderProps[c].isAnchor
    /\ type(d) = "text" /\ ~showOverlay[d] /\ ~renderProps[d].showOverlay
    /\ isEditing

\* C9: a keydown is forwarded to the input only when the cell has an input,
\* the key is a single character of the class of the cell type (a digit for
\* number, any single character for text; none for boolean and select) and
\* the cell is in Overlay mode when the event arrives.
C9_ForwardOnlyIf ==
  [][(last'.op = "keydown" /\ log' # <<>>)
       => /\ inputRef(last'.cell) # "null"
          /\ Len(last'.key) = 1
          /\ type(last'.cell) \in {"text", "number"}
          /\ type(last'.cell) = "number" => last'.key \in Digits
          /\ showOverlay[last'.cell]]_vars

C9_Witness ==
  /\ last.op = "keydown" /\ last.key = "a" /\ last.ctrlKey
  /\ type(last.cell) = "text"
  /\ WasCalled(log, "dispatchEvent", last.cell, "a")
  /\ activeElement = Input(last.cell)

C12_AnchorFocusSync ==
  [][/\ (anchor' # anchor /\ anchor' # None)
          => contains(anchor', activeElement')
     /\ (last'.op = "programmaticSelection" /\ anchor' # anchor)
          => IF contains(anchor', activeElement)
             THEN /\ activeElement' = activeElement
                  /\ NotCalled(log', "containerRef.focus")
             ELSE /\ activeElement' = Container(anchor')
                  /\ WasCalled(log', "containerRef.focus", anchor', "")]_vars

C12_Witness ==
  /\ last.op = "programmaticSelection" /\ anchor = last.cell
  /\ activeElement = Container(anchor)
  /\ WasCalled(log, "containerRef.focus", anchor, "")
  /\ \E i \in 1..Len(log) : log[i].f = "handleInputBlur"

Outcomes == {"inputRef.focus", "setRangeEnd", "setSingleRange"}

\* C16: every mousedown calls preventDefault and stopPropagation first, and
\* then takes at most one of the three branches: Direct-edit (the input is
\* focused), extension of the range (setRangeEnd), new single range
\* (setSingleRange, always with setIsSelecting(true)).  A double-click with
\* shift held on a cell with an input takes the Direct-edit branch only.
C16_GesturesExclusive ==
  last.op \in PointerOps
    => /\ Len(log) >= 2
       /\ log[1] = [f |-> "preventDefault", cell |-> last.cell, arg |-> ""]
       /\ log[2] = [f |-> "stopPropagation", cell |-> last.cell, arg |-> ""]
       /\ Cardinality({f \in Outcomes : ~NotCalled(log, f)}) <= 1
       /\ Cardinality({i \in 1..Len(log) : log[i].f \in Outcomes}) <= 1
       /\ WasCalled(log, "setSingleRange", last.cell, "")
            <=> WasCalled(log, "setIsSelecting", last.cell, BoolArg(TRUE))
       /\ (last.detail = 2 /\ last.shiftKey /\ inputRef(last.cell) # "null")
            => /\ WasCalled(log, "inputRef.focus", last.cell, "")
               /\ activeElement = Input(last.cell)
               /\ ~showOverlay[last.cell]
               /\ NotCalled(log, "setRangeEnd")
               /\ NotCalled(log, "setSingleRange")

C16_Witness ==
  /\ last.op = "booleanInnerMouseDown" /\ last.detail = 2 /\ last.shiftKey
  /\ inputRef(last.cell) # "null"
  /\ anchor # None /\ rangeEnd # last.cell
  /\ activeElement = Input(last.cell)

\* C19: with all the cells on one coordinator, isEditing is true exactly
\* when the input of some cell has the focus, and at most one cell is in
\* Direct-edit (overlay hidden): the cell whose input has the focus.
C19_OneEditor ==
  /\ isEditing <=> activeElement.kind = "input"
  /\ Cardinality({c \in Cells : ~showOverlay[c]}) <= 1
  /\ \A c \in Cells : ~showOverlay[c] <=> activeElement = Input(c)

C19_Witness ==
  /\ last.op = "overlayMouseDown" /\ last.detail = 2
  /\ isEditing
  /\ activeElement = Input(last.cell)
  /\ \E i \in 1..Len(log) :
       log[i].f = "handleInputBlur" /\ log[i].cell # last.cell

\* C20: a pointer handler calls setRangeEnd only while the anchor is set,
\* and a shift-click while there is no anchor is handled as a plain click:
\* new single-cell range at the clicked cell.
C20_NoExtendWithoutAnchor ==
  [][last'.op \in PointerOps
       => /\ ~NotCalled(log', "setRangeEnd") => anchor # None
          /\ (last'.shiftKey /\ last'.detail # 2 /\ anchor = None)
               => /\ anchor' = last'.cell
                  /\ rangeEnd' = last'.cell
                  /\ WasCalled(log', "setSingleRange", last'.cell, "")]_vars

Calls(l, f) == Cardinality({i \in 1..Len(l) : l[i].f = f})

\* C18: one container keydown re-dispatches at most one keyboard event to
\* the input, and focuses the input and selects its content at most once:
\* the re-dispatched event causes no further focus/select/re-dispatch.
C18_OneRedispatch ==
  last.op = "keydown"
    => /\ Dispatches(log) <= 1
       /\ Calls(log, "inputRef.focus") <= 1
       /\ Calls(log, "select") <= 1
       /\ Calls(log, "setShowOverlay") <= 2

\* a render of the instance has completed in this step
Rendered == hook'.renders > hook.renders /\ hook'.status = "mounted"

SameTriple == hook'.props = hook.props

\* C11 (as claimed): the cell registers on mount, and once for every
\* re-render that changes the triple (coordinates, field, type); a re-render
\* with the triple unchanged does not call registerCell.
C11_OncePerTriple ==
  [][Rendered =>
       IF hook.status = "mounted" /\ SameTriple
       THEN /\ hook'.registered = hook.registered
            /\ hook'.log[Len(hook'.log)] # "registerCell"
       ELSE /\ hook'.registered = hook.registered + 1
            /\ hook'.lastRegistered =
                 registerCell(hook'.context.registerCell,
                              [row |-> hook'.props.rowIndex,
                               col |-> hook'.props.columnIndex],
                              hook'.props.field, hook'.props.type)]_vars

\* C11 (amended): the cell registers on mount, and once for every re-render
\* that changes the triple or the coordinator's registerCell function; a
\* re-render with the triple and the registerCell function unchanged does
\* not call registerCell.
C11_OncePerChange ==
  [][Rendered =>
       IF /\ hook.status = "mounted" /\ SameTriple
          /\ hook'.context.registerCell = hook.context.registerCell
       THEN /\ hook'.registered = hook.registered
            /\ hook'.log[Len(hook'.log)] # "registerCell"
       ELSE /\ hook'.registered = hook.registered + 1
            /\ hook'.log[Len(hook'.log)] = "registerCell"
            /\ hook'.lastRegistered =
                 registerCell(hook'.context.registerCell,
                              [row |-> hook'.props.rowIndex,
                               col |-> hook'.props.columnIndex],
                              hook'.props.field, hook'.props.type)]_vars

C11_Witness ==
  /\ hook.status = "mounted" /\ hook.renders = MaxRenders
  /\ hook.registered = 1
  /\ hook.coords.value.ref = 1
  /\ hook.log[Len(hook.log)] # "registerCell"

\* C13: a render of useDataGridCell with no coordinator context throws the
\* error of useDataGridContext, after useMemo and generateCellId only: no
\* handler has been created (no useCallback), no effect declared, no cell
\* registered, and neither what the coordinator has received nor the state
\* of the grid has changed.
C13_NoContextThrows ==
  [][(hook'.renders > hook.renders /\ ~hook'.context.provided)
       => /\ hook'.status = "threw"
          /\ hook'.error = ContextError
          /\ hook'.log = <<"useMemo", "generateCellId", "useDataGridContext">>
          /\ hook'.registered = hook.registered
          /\ hook'.lastRegistered = hook.lastRegistered
          /\ UNCHANGED gridVars]_vars

C13_Witness ==
  /\ hook.status = "threw" /\ hook.error = ContextError
  /\ hook.renders = 2
  /\ hook.registered = 1

\* C17: after any sequence of renders and container replacements, while a
\* container element is in containerRef.current the hook has returned a tool
\* built for that element: not null, and not a tool for an earlier element.
C17_ToolForCurrentContainer ==
  (tool.renders > 0 /\ tool.current[tool.containerRef] # Null)
    => tool.returned = GridQueryTool(tool.current[tool.containerRef])

\* C14: a call of the helper calls the service exactly once, with the list
\* given, or with the three default records when the list is omitted; when
\* the service resolves, the helper resolves to the very list the service
\* resolved to.
C14_PassThrough ==
  /\ fixture.phase # "idle"
       => /\ Len(fixture.calls) = 1
          /\ fixture.arg.given => fixture.calls[1] = fixture.arg.list
          /\ ~fixture.arg.given
               => /\ fixture.calls[1] = DefaultUserData
                  /\ Len(fixture.calls[1]) = 3
  /\ (fixture.service.settled /\ fixture.service.ok)
       => /\ fixture.phase = "resolved"
          /\ fixture.value = fixture.service.value

C14_Witness ==
  /\ fixture.phase = "resolved"
  /\ ~fixture.arg.given
  /\ fixture.calls = <<DefaultUserData>>
  /\ Len(fixture.value) = 2
  /\ fixture.value[1] # fixture.value[2]
  /\ fixture.value = fixture.service.value

\* C15: when the service rejects, the helper rejects with the same error,
\* having called the service once, and with no value in place of a result.
C15_RejectionPropagates ==
  (fixture.service.settled /\ ~fixture.service.ok)
    => /\ fixture.phase = "rejected"
       /\ fixture.error = fixture.service.error
       /\ fixture.value = <<>>
       /\ Len(fixture.calls) = 1

C15_Witness ==
  /\ fixture.phase = "rejected"
  /\ fixture.error = "duplicate"
  /\ fixture.arg.given /\ Len(fixture.arg.list) = 2

====
